---- MODULE Spec2Model ----
(***************************************************************************)
(* Model of the mission orchestrator of exploration_sim.py: the command    *)
(* line entry point, the exploration phase (simulate_control), the two     *)
(* refinement phases (refine_landing_area, kinematics_refine_landing_area) *)
(* and the landing phase (landing), all working on one HDF5 archive.       *)
(*                                                                         *)
(* Abstractions.  The 18-element spacecraft state is an abstract natural   *)
(* number.  A point of space is <<r, a>>: r its norm in units of 5e-10,    *)
(* a its azimuth about the asteroid spin axis in units of 2*pi/RotPeriod.  *)
(* A rotation about the spin axis is an integer modulo RotPeriod.  Python  *)
(* numbers keep their kind (numpy integer or float) because str() of the   *)
(* two differs.  An archive is a function from paths (tuples of names) to  *)
(* the stored values; the marker GROUP stands for an HDF5 group.           *)
(*                                                                         *)
(* Specifications.  Spec: the invocations of the four simulation functions *)
(* and their loops, tick by tick.  MainSpec: the argument parser and the   *)
(* if / elif chain of the entry point for every option of the mode group,  *)
(* each invocation followed up to the loop of the function it calls.       *)
(* EomSpec: calls of the right-hand sides of dynamics/eoms.py, along one   *)
(* axis (a rotation is a sign, a cross product a product).                 *)
(***************************************************************************)
EXTENDS Integers, Sequences, FiniteSets, TLC

VARIABLES fileExists, archive, world, pc, mode, name, runs, exitStatus, exc,
          sys, time, t, ii, state, targets, Ra, caster, intersections,
          ast_ints, est, wi, site, initial_state, explore_mesh, steps,
          nInteg, nUpd, failTick, lastTick, begun, args, called, eom,
          in_view

vars == <<fileExists, archive, world, pc, mode, name, runs, exitStatus, exc,
          sys, time, t, ii, state, targets, Ra, caster, intersections,
          ast_ints, est, wi, site, initial_state, explore_mesh, steps,
          nInteg, nUpd, failTick, lastTick, begun, args, called, eom,
          in_view>>

(* ------------------------------ bounds --------------------------------- *)

\* number of samples of the exploration time vector (15000 in the program)
max_steps == 3
\* number of samples of the dynamic refinement time vector (3600)
refine_steps == 3
\* number of samples of the kinematic refinement time vector (3600*3)
kin_steps == 2
\* number of samples of the landing time vector (5000)
land_steps == 3
\* number of rays of the LIDAR grid (num_steps(3) in the program)
NumRays == 2
\* number of distinct asteroid rotations Ra(t) the model tells apart
RotPeriod == 4
\* number of command line invocations on the archive
MaxRuns == 4
\* number of invocations in the runs the write frame of the later phases is
\* checked over: an exploration, a refinement and a landing or a re-run
FrameRuns == 3
\* total weight of the seed ellipsoid estimate
InitWeight == 2

(* ------------------------- python numbers, str() ------------------------ *)

PyInt(n) == [v |-> n, k |-> "int"]
PyFloat(n) == [v |-> n, k |-> "float"]

\* numpy: integer + integer is an integer, float + integer is a float
Add(x, d) == [v |-> x.v + d, k |-> x.k]

Digit(d) ==
  CASE d = 0 -> "0" [] d = 1 -> "1" [] d = 2 -> "2" [] d = 3 -> "3"
    [] d = 4 -> "4" [] d = 5 -> "5" [] d = 6 -> "6" [] d = 7 -> "7"
    [] d = 8 -> "8" [] d = 9 -> "9"

RECURSIVE IntStr(_)
IntStr(n) == IF n < 10 THEN Digit(n) ELSE IntStr(n \div 10) \o Digit(n % 10)

\* str() of a python number: "7" for an integer, "7.0" for a float
Str(x) == IF x.k = "int" THEN IntStr(x.v) ELSE IntStr(x.v) \o ".0"

\* np.arange(a, b)
Arange(a, b) == [i \in 1..(b - a) |-> a + i - 1]

Last(s) == s[Len(s)]

(* --------------------------- geometry ----------------------------------- *)

\* the threshold 1e-9 of the miss test, in units of 5e-10
MissEps == 2

\* the NaN triple np.array([nan, nan, nan]); no norm is negative
NaN == <<-1, -1>>

IsFinite(p) == p[1] >= 0

Norm(p) == p[1]

\* rotation of a point about the spin axis by k steps; the zero vector is fixed
Rot(k, p) == IF p[1] = 0 THEN p ELSE <<p[1], (p[2] + k) % RotPeriod>>

\* transpose (inverse) rotation
RotT(k, p) == IF p[1] = 0 THEN p ELSE <<p[1], (p[2] + RotPeriod - k) % RotPeriod>>

\* Asteroid.rot_ast2int(t): the rotation of the asteroid at time t
rot_ast2int(x) == x.v % RotPeriod

(* ------------------ collaborators outside the sources ------------------- *)

\* the two worlds the model is run in: the returns of the true mesh
\* (castalia.obj) and of the bumpy mesh (castalia_bump.obj) in the body
\* frame; <<0, 0>> is the caster's sentinel for a miss
Worlds ==
  { [true |-> << <<3, 1>>, <<0, 0>>, <<2, 0>> >>,
     bumpy |-> << <<3, 2>>, <<1, 1>>, <<0, 0>> >>],
    [true |-> << <<1, 3>>, <<3, 0>>, <<0, 0>> >>,
     bumpy |-> << <<0, 0>>, <<2, 3>>, <<3, 3>> >>] }

\* Lidar.define_targets(pos, R, dist): one target per ray of the grid
define_targets(y) == [i \in 1..NumRays |-> <<y, i>>]

\* RayCaster.castarray(origin, targets) on the mesh uploaded last: the
\* nearest hit of each ray on the rotated mesh, or the sentinel for a miss
castarray(mesh, y, tg) ==
  [i \in 1..Len(tg) |->
     Rot(mesh.rot, mesh.shape[((y + tg[i][2]) % Len(mesh.shape)) + 1])]

\* ReconstructMesh.update(batch, max_angle): every finite measurement moves
\* a vertex and lowers the weight; a NaN measurement is dropped
update(e, batch) ==
  LET fin == {i \in 1..Len(batch) : IsFinite(batch[i])}
  IN  [v |-> e.v \cup {batch[i] : i \in fin},
       f |-> e.f,
       w |-> IF e.w > Cardinality(fin) THEN e.w - Cardinality(fin) ELSE 0]

\* MeshData.remesh_faces_in_view(site, angle, edge): splits the faces in view
remesh_faces_in_view(e) == [e EXCEPT !.f = @ + 1]

\* scipy ode.integrate on success: the state one second later
Flow(y) == y + 1

\* the distance of the attitude block R of the integrator's state from
\* SO(3) after a step, in units of the tolerance: the nine entries of R are
\* integrated as independent variables, so a step may return R orthonormal
\* (0) or off the group (1)
OffSO3 == {0, 1}

(* ------------------------------ archive --------------------------------- *)

GROUP == "GROUP"

EmptyArchive == [p \in {} |-> GROUP]

Has(a, p) == p \in DOMAIN a

\* create_dataset / create_group: one more path in the archive
Put(a, p, val) == (p :> val) @@ a

RECURSIVE PutAll(_, _)
PutAll(a, ps) ==
  IF ps = <<>> THEN a ELSE PutAll(Put(a, Head(ps)[1], Head(ps)[2]), Tail(ps))

IsPrefix(q, p) == Len(q) <= Len(p) /\ SubSeq(p, 1, Len(q)) = q

\* del hf[q]: the group q and everything below it
Delete(a, q) == [p \in {x \in DOMAIN a : ~IsPrefix(q, x)} |-> a[p]]

\* the keys of a group: the last names of the paths directly below it
Keys(a, g) == {p[Len(p)] : p \in {x \in DOMAIN a : Len(x) = Len(g) + 1 /\ IsPrefix(g, x)}}

\* the per-tick groups in the order of their create_dataset calls
PersistOrder ==
  << "reconstructed_vertex", "reconstructed_face", "reconstructed_weight",
     "state", "targets", "Ra", "inertial_intersections",
     "asteroid_intersections" >>

LandingOrder == << "state", "Ra" >>

TickGroups == {PersistOrder[i] : i \in 1..Len(PersistOrder)}

(* ------------------------- names and parameters ------------------------- *)

\* the asteroid names given on the command line in the model
Names == {"castalia", "golevka", "bogus"}

\* the names initialize_asteroid loads a mesh for
KnownNames == {"castalia", "itokawa", "eros", "phobos", "lutetia",
               "geographos", "bacchus", "golevka", "52760"}

\* the names simulate_control has an initial position for
PositionNames == {"itokawa", "castalia", "eros", "phobos", "lutetia",
                  "geographos", "bacchus", "52760"}

\* the landing sites of the command line, as abstract body-frame points
LandingSpot == "0.48501797,-0.02027519,0.37758639"
RefineSpot == "0.47180473,-0.01972284,0.36729988"

\* the seed ellipsoid of initialize_asteroid
Ellipsoid == [v |-> {}, f |-> 1, w |-> InitWeight]

\* the initial state of simulate_control
ExploreInitialState == 0

\* the mesh file initialize_asteroid reads for a name
FileName(nm) ==
  CASE nm = "castalia" -> "castalia.obj"
    [] nm = "golevka" -> "6489golevka.obj"

\* the datasets initialize_asteroid writes
SimulationParameters(nm) ==
  << << <<"simulation_parameters">>, GROUP >>,
     << <<"simulation_parameters", "AbsTol">>, "1e-9" >>,
     << <<"simulation_parameters", "RelTol">>, "1e-9" >>,
     << <<"simulation_parameters", "dumbbell">>, GROUP >>,
     << <<"simulation_parameters", "true_asteroid">>, GROUP >>,
     << <<"simulation_parameters", "true_asteroid", "vertices">>, world.true >>,
     << <<"simulation_parameters", "true_asteroid", "name">>, FileName(nm) >>,
     << <<"simulation_parameters", "estimate_asteroid">>, GROUP >>,
     << <<"simulation_parameters", "estimate_asteroid", "initial_vertices">>, Ellipsoid.v >>,
     << <<"simulation_parameters", "estimate_asteroid", "initial_faces">>, Ellipsoid.f >>,
     << <<"simulation_parameters", "estimate_asteroid", "initial_weight">>, Ellipsoid.w >>,
     << <<"simulation_parameters", "lidar">>, GROUP >> >>

\* the eight per-tick groups a phase creates below its prefix
GroupPuts(prefix) ==
  [i \in 1..Len(PersistOrder) |-> << prefix \o <<PersistOrder[i]>>, GROUP >>]

(* --------------------------- command line ------------------------------- *)

\* the store_true options of the mutually exclusive group
Switches ==
  { "control_sim", "animate", "animate_uncertainty", "landing",
    "landing_animation", "landing_refine", "landing_kinematic_refine",
    "landing_refine_animation" }

\* the options of the group that store a string
Valued ==
  { "reconstruct", "state", "uncertainty", "volume", "save_animation",
    "landing_save_animation", "landing_plots", "refine_plots",
    "landing_refine_save_animation" }

Options == Switches \cup Valued

\* the strings given to an option that stores one
Values == {"", "img"}

\* an option on the command line with the value argparse stores for it
Given == {<<f, "True">> : f \in Switches} \cup (Valued \X Values)

\* the command lines of the model: at most two options of the group
CommandLines ==
  {{}} \cup {{g} : g \in Given}
       \cup UNION {{{g, h} : h \in {x \in Given : x[1] # g[1]}} : g \in Given}

\* the value of an option that is not given: False for store_true, None
\* for store
Default(f) == IF f \in Switches THEN "False" ELSE "None"

\* args = parser.parse_args(): the namespace of the group's options
Namespace(given) ==
  [f \in Options |->
     IF \E g \in given : g[1] = f
     THEN (CHOOSE g \in given : g[1] = f)[2]
     ELSE Default(f)]

\* the namespace when no option is given
NoArgs == Namespace({})

\* Conflict, with the options added to the parser and not to a group
ConflictNoGroup(given) == FALSE

\* add_mutually_exclusive_group: a second option of the group is an error
Conflict(given) == Cardinality(given) > 1

\* the truth value python gives to the value of an option in if / elif
Truthy(v) == v \notin {"False", "None", ""}

\* the if / elif chain of the entry point, in its order: the option tested
\* and the function called
DispatchOrder ==
  << <<"control_sim", "simulate_control">>,
     <<"reconstruct", "reconstruct_images">>,
     <<"volume", "plot_volume">>,
     <<"uncertainty", "plot_uncertainty">>,
     <<"refine_plots", "refine_site_plots">>,
     <<"state", "plot_state_trajectory">>,
     <<"landing_plots", "landing_site_plots">>,
     <<"animate", "animate">>,
     <<"animate_uncertainty", "animate_uncertainty">>,
     <<"save_animation", "save_animation">>,
     <<"landing", "landing">>,
     <<"landing_animation", "animate_landing">>,
     <<"landing_save_animation", "save_animate_landing">>,
     <<"landing_refine", "refine_landing_area">>,
     <<"landing_refine_animation", "animate_refinement">>,
     <<"landing_refine_save_animation", "save_animate_refinement">>,
     <<"landing_kinematic_refine", "kinematics_refine_landing_area">> >>

\* the branches of the chain whose test is true for a namespace
TrueBranches(ns) ==
  {i \in 1..Len(DispatchOrder) : Truthy(ns[DispatchOrder[i][1]])}

\* the functions the chain calls for a namespace: the one of the first
\* branch whose test is true, none if no test is true
Dispatch(ns) ==
  IF TrueBranches(ns) = {} THEN <<>>
  ELSE << DispatchOrder[CHOOSE i \in TrueBranches(ns) :
                          \A j \in TrueBranches(ns) : i <= j][2] >>

\* the command line of the invocation and the mode functions it called
cmdline == <<args, called>>

\* the entry point called with the one option f
CalledWith(f) ==
  /\ args' = Namespace({<<f, "True">>})
  /\ called' = Dispatch(Namespace({<<f, "True">>}))

(* ----------------------- equations of motion ---------------------------- *)

\* the right-hand sides of dynamics/eoms.py
Relative == "eoms_controlled_relative_blender_ode"

EomNames ==
  { Relative, "eoms_controlled_inertial_circumnavigate",
    "eoms_controlled_inertial_lissajous",
    "eoms_controlled_inertial_quarter_equatorial" }

\* the number of parameters of a right-hand side
Arity(fn) == IF fn = Relative THEN 4 ELSE 6

\* the translational trajectory generator a right-hand side calls
Generator(fn) ==
  CASE fn = Relative -> "asteroid_circumnavigate"
    [] fn = "eoms_controlled_inertial_circumnavigate" -> "inertial_circumnavigate"
    [] fn = "eoms_controlled_inertial_lissajous" -> "inertial_lissajous_yz_plane"
    [] fn = "eoms_controlled_inertial_quarter_equatorial" -> "inertial_quarter_equatorial_plane"

\* the states, dumbbells and trajectory parameters the right-hand sides are
\* called with, along one axis: a rotation is a sign, a cross product a
\* product
EomStates ==
  [pos : {2, 3}, vel : {0, 1}, R : {1, -1}, w : {0, 1}]

Dumbbells ==
  { [m1 |-> 1, m2 |-> 2, zeta1 |-> -1, zeta2 |-> 1],
    [m1 |-> 2, m2 |-> 1, zeta1 |-> -1, zeta2 |-> 2] }

Trailing == {<<>>, <<3600, 1>>, <<7200, 2>>}

EomTimes == {0, 1}

\* attitude.rot3(ast.omega*t, 'c'): the asteroid frame in the inertial frame
rot3(tm) == IF tm % 2 = 0 THEN 1 ELSE -1

\* the gradient ast.polyhedron_potential(z) returns for a field point
U_grad(z) == 0 - z

\* z1, z2: the position of each mass in the asteroid frame
FieldPoints(fn, tm, x, dum) ==
  IF fn = Relative
  THEN << x.pos + x.R * dum.zeta1, x.pos + x.R * dum.zeta2 >>
  ELSE << rot3(tm) * (x.pos + x.R * dum.zeta1),
          rot3(tm) * (x.pos + x.R * dum.zeta2) >>

\* F1, F2: the force on each mass from the gradients g at z1 and z2
Forces(fn, tm, dum, g) ==
  IF fn = Relative
  THEN << dum.m1 * g[1], dum.m2 * g[2] >>
  ELSE << dum.m1 * rot3(tm) * g[1], dum.m2 * rot3(tm) * g[2] >>

\* Moments, with the moment of the second mass taken from the first gradient
MomentsOfFirstGradient(fn, tm, x, dum, g) ==
  IF fn = Relative
  THEN << dum.m1 * (x.R * dum.zeta1) * g[1], dum.m2 * (x.R * dum.zeta2) * g[1] >>
  ELSE << dum.m1 * dum.zeta1 * (x.R * rot3(tm) * g[1]),
          dum.m2 * dum.zeta2 * (x.R * rot3(tm) * g[1]) >>

\* M1, M2: the moment on each mass from the gradients g at z1 and z2
Moments(fn, tm, x, dum, g) ==
  IF fn = Relative
  THEN << dum.m1 * (x.R * dum.zeta1) * g[1], dum.m2 * (x.R * dum.zeta2) * g[2] >>
  ELSE << dum.m1 * dum.zeta1 * (x.R * rot3(tm) * g[1]),
          dum.m2 * dum.zeta2 * (x.R * rot3(tm) * g[2]) >>

\* des_tran_tuple: the generator called and its arguments
DesTran(fn, tm, rest) ==
  IF fn = Relative
  THEN << Generator(fn), tm, 3600, 1 >>
  ELSE << Generator(fn), tm, rest[1], rest[2] >>

\* the right-hand sides in the inertial frame
Inertial == EomNames \ {Relative}

\* U1_grad, U2_grad: the gradients of the potential at z1 and z2
Gradients(fn, tm, x, dum) ==
  [k \in 1..2 |-> U_grad(FieldPoints(fn, tm, x, dum)[k])]

\* controller.<generator>(t, tf, loops): the desired position at time t;
\* the generators start from the same point and part with time
desired_position(gen, tm, hor, loops) ==
  CASE gen = "asteroid_circumnavigate" -> 3 - tm * loops
    [] gen = "inertial_circumnavigate" -> 3 - tm * loops
    [] gen = "inertial_lissajous_yz_plane" -> 3 - tm * 2
    [] gen = "inertial_quarter_equatorial_plane" -> 3 - tm

\* the desired position des_tran_tuple holds
Desired(fn, tm, rest) ==
  desired_position(DesTran(fn, tm, rest)[1], DesTran(fn, tm, rest)[2],
                   DesTran(fn, tm, rest)[3], DesTran(fn, tm, rest)[4])

\* controller.translation_controller(t, state, F1+F2, dum, ast, des_tran):
\* the position and velocity errors fed back, the external force cancelled
translation_controller(x, ext_force, des) == des - x.pos - x.vel - ext_force

\* controller.attitude_controller(t, state, M1+M2, dum, ast, des_att): the
\* angular velocity fed back, the external moment cancelled
attitude_controller(x, ext_moment) == 0 - x.w - ext_moment

\* u_f of a call
ControlForce(fn, tm, x, dum, rest) ==
  translation_controller(
    x,
    Forces(fn, tm, dum, Gradients(fn, tm, x, dum))[1]
      + Forces(fn, tm, dum, Gradients(fn, tm, x, dum))[2],
    Desired(fn, tm, rest))

\* u_m of a call
ControlMoment(fn, tm, x, dum) ==
  attitude_controller(
    x,
    Moments(fn, tm, x, dum, Gradients(fn, tm, x, dum))[1]
      + Moments(fn, tm, x, dum, Gradients(fn, tm, x, dum))[2])

\* pos_dot: the relative form subtracts hat(Wa) pos
PosDot(fn, x) == IF fn = Relative THEN x.vel - x.pos ELSE x.vel

\* VelDot, with the lissajous right-hand side leaving out the control force
VelDotLissajousUncontrolled(fn, tm, x, dum, rest) ==
  IF fn = Relative
  THEN ( Forces(fn, tm, dum, Gradients(fn, tm, x, dum))[1]
         + Forces(fn, tm, dum, Gradients(fn, tm, x, dum))[2]
         - (dum.m1 + dum.m2) * x.vel
         + ControlForce(fn, tm, x, dum, rest) ) \div (dum.m1 + dum.m2)
  ELSE ( Forces(fn, tm, dum, Gradients(fn, tm, x, dum))[1]
         + Forces(fn, tm, dum, Gradients(fn, tm, x, dum))[2]
         + IF fn = "eoms_controlled_inertial_lissajous" THEN 0
           ELSE ControlForce(fn, tm, x, dum, rest) ) \div (dum.m1 + dum.m2)

\* vel_dot = 1/(m1+m2) (F1 + F2 + u_f); the relative form subtracts
\* m hat(Wa) vel
VelDot(fn, tm, x, dum, rest) ==
  IF fn = Relative
  THEN ( Forces(fn, tm, dum, Gradients(fn, tm, x, dum))[1]
         + Forces(fn, tm, dum, Gradients(fn, tm, x, dum))[2]
         - (dum.m1 + dum.m2) * x.vel
         + ControlForce(fn, tm, x, dum, rest) ) \div (dum.m1 + dum.m2)
  ELSE ( Forces(fn, tm, dum, Gradients(fn, tm, x, dum))[1]
         + Forces(fn, tm, dum, Gradients(fn, tm, x, dum))[2]
         + ControlForce(fn, tm, x, dum, rest) ) \div (dum.m1 + dum.m2)

\* R_dot: R hat(ang_vel); the relative form is hat(w) R - hat(Wa) R
RDot(fn, x) == IF fn = Relative THEN x.w * x.R - x.R ELSE x.R * x.w

\* ang_vel_dot = inv(J) (-w x J w + M1 + M2 + u_m) with J the identity; the
\* relative form subtracts Jr hat(Wa) w
WDot(fn, tm, x, dum) ==
  IF fn = Relative
  THEN Moments(fn, tm, x, dum, Gradients(fn, tm, x, dum))[1]
       + Moments(fn, tm, x, dum, Gradients(fn, tm, x, dum))[2]
       - x.w + ControlMoment(fn, tm, x, dum)
  ELSE Moments(fn, tm, x, dum, Gradients(fn, tm, x, dum))[1]
       + Moments(fn, tm, x, dum, Gradients(fn, tm, x, dum))[2]
       + ControlMoment(fn, tm, x, dum)

\* no right-hand side has been called
NoCall ==
  [fn |-> "none", t |-> 0, x |-> [pos |-> 0, vel |-> 0, R |-> 1, w |-> 0],
   dum |-> [m1 |-> 0, m2 |-> 0, zeta1 |-> 0, zeta2 |-> 0], rest |-> <<>>,
   raised |-> "none", potential |-> <<>>, F |-> <<>>,
   M |-> <<>>, tran |-> <<>>, des |-> 0, pos_dot |-> 0, vel_dot |-> 0,
   R_dot |-> 0, w_dot |-> 0]

(* ------------------------------ state ----------------------------------- *)

NoNum == PyInt(0)
NoMesh == [shape |-> <<>>, rot |-> 0]
NoTick ==
  [ii |-> 0, t |-> 0, tf |-> 0, state |-> 0, est |-> Ellipsoid, key |-> "",
   site |-> ""]
Phases == {"explore", "refinement", "landing"}

Init ==
  /\ fileExists = FALSE
  /\ archive = EmptyArchive
  /\ world \in Worlds
  /\ pc = "idle"
  /\ mode = "none"
  /\ name = ""
  /\ runs = 0
  /\ exitStatus = 0
  /\ exc = "none"
  /\ sys = [t |-> NoNum, ok |-> TRUE, y |-> 0, err |-> 0]
  /\ time = <<>>
  /\ t = NoNum
  /\ ii = 0
  /\ state = 0
  /\ targets = <<>>
  /\ Ra = 0
  /\ caster = NoMesh
  /\ intersections = <<>>
  /\ ast_ints = <<>>
  /\ est = Ellipsoid
  /\ wi = 0
  /\ site = ""
  /\ initial_state = 0
  /\ explore_mesh = Ellipsoid
  /\ steps = <<>>
  /\ nInteg = 0
  /\ nUpd = 0
  /\ failTick = 0
  /\ lastTick = [p \in Phases |-> NoTick]
  /\ begun = <<>>
  /\ args = NoArgs
  /\ called = <<>>
  /\ eom = NoCall
  /\ in_view = 0

\* the process ends: its exit status is set and its memory is gone
Exit(status, e) ==
  /\ pc' = "idle"
  /\ exitStatus' = status
  /\ exc' = e
  /\ sys' = [t |-> NoNum, ok |-> TRUE, y |-> 0, err |-> 0]
  /\ time' = <<>>
  /\ t' = NoNum
  /\ ii' = 0
  /\ state' = 0
  /\ targets' = <<>>
  /\ Ra' = 0
  /\ caster' = NoMesh
  /\ intersections' = <<>>
  /\ ast_ints' = <<>>
  /\ est' = Ellipsoid
  /\ wi' = 0
  /\ site' = ""
  /\ in_view' = 0
  /\ initial_state' = 0
  /\ explore_mesh' = Ellipsoid
  /\ steps' = <<>>

\* tf, taken as the start time plus the number of samples
tfSamples == time[1] + Len(time)

\* t0, tf = time[0], time[-1]
tf == Last(time)

\* dt = time[1] - time[0]
dt == time[2] - time[1]

\* Prefix, with every phase writing at the root of the archive
PrefixAtRoot == <<>>

\* the top group of the running phase
Prefix ==
  CASE mode = "explore" -> <<>>
    [] mode \in {"refine", "kinrefine"} -> <<"refinement">>
    [] mode = "landing" -> <<"landing">>

PhaseOf(m) ==
  CASE m = "explore" -> "explore"
    [] m \in {"refine", "kinrefine"} -> "refinement"
    [] m = "landing" -> "landing"

\* history variables of the running phase
NewPhase(m) ==
  /\ nInteg' = 0
  /\ nUpd' = 0
  /\ failTick' = 0
  /\ lastTick' = [lastTick EXCEPT ![PhaseOf(m)] = NoTick]
  /\ begun' = Append(begun, m)

history == <<nInteg, nUpd, failTick, lastTick, begun>>
tickData == <<targets, Ra, caster, intersections, ast_ints>>
handoff == <<site, initial_state, explore_mesh, in_view>>

(* ------------------------ exploration: start ---------------------------- *)

\* StartControlSim, with the archive opened in a mode that truncates an existing file
StartControlSimTruncating(nm) ==
  /\ pc = "idle"
  /\ runs < MaxRuns
  /\ runs' = runs + 1
  /\ mode' = "explore"
  /\ name' = nm
  /\ IF nm \notin KnownNames
     THEN \* initialize_asteroid returns 1; unpacking it raises TypeError
          /\ Exit(1, "TypeError")
          /\ UNCHANGED <<fileExists, archive, history>>
     ELSE IF nm \notin PositionNames
     THEN \* "Incorrect asteroid selected": return 1, ignored by the caller
          /\ fileExists' = TRUE
          /\ archive' = PutAll(EmptyArchive, SimulationParameters(nm))
          /\ Exit(0, "none")
          /\ UNCHANGED history
     ELSE /\ fileExists' = TRUE
          /\ archive' =
               PutAll(EmptyArchive,
                      SimulationParameters(nm)
                        \o << << <<"time">>, Arange(0, max_steps) >>,
                              << <<"initial_state">>, ExploreInitialState >> >>
                        \o GroupPuts(<<>>))
          /\ time' = Arange(0, max_steps)
          /\ sys' = [t |-> PyInt(0), ok |-> TRUE, y |-> ExploreInitialState, err |-> 0]
          /\ initial_state' = ExploreInitialState
          /\ est' = Ellipsoid
          /\ caster' = [shape |-> world.true, rot |-> 0]
          /\ ii' = 1
          /\ pc' = "loop"
          /\ NewPhase("explore")
          /\ UNCHANGED <<exitStatus, exc, t, state, targets, Ra,
                         intersections, ast_ints, wi, site, in_view,
                         explore_mesh,
                         steps>>
  /\ CalledWith("control_sim")
  /\ UNCHANGED <<world, eom>>

\* -c: simulate_control(args.simulation_data, args.name) up to its loop
StartControlSim(nm) ==
  /\ pc = "idle"
  /\ runs < MaxRuns
  /\ runs' = runs + 1
  /\ mode' = "explore"
  /\ name' = nm
  /\ IF nm \notin KnownNames
     THEN \* initialize_asteroid returns 1; unpacking it raises TypeError
          /\ Exit(1, "TypeError")
          /\ UNCHANGED <<fileExists, archive, history>>
     ELSE IF fileExists
     THEN \* h5py.File(output_filename, 'w-') refuses an existing file
          /\ Exit(1, "OSError")
          /\ UNCHANGED <<fileExists, archive, history>>
     ELSE IF nm \notin PositionNames
     THEN \* "Incorrect asteroid selected": return 1, ignored by the caller
          /\ fileExists' = TRUE
          /\ archive' = PutAll(EmptyArchive, SimulationParameters(nm))
          /\ Exit(0, "none")
          /\ UNCHANGED history
     ELSE /\ fileExists' = TRUE
          /\ archive' =
               PutAll(EmptyArchive,
                      SimulationParameters(nm)
                        \o << << <<"time">>, Arange(0, max_steps) >>,
                              << <<"initial_state">>, ExploreInitialState >> >>
                        \o GroupPuts(<<>>))
          /\ time' = Arange(0, max_steps)
          /\ sys' = [t |-> PyInt(0), ok |-> TRUE, y |-> ExploreInitialState, err |-> 0]
          /\ initial_state' = ExploreInitialState
          /\ est' = Ellipsoid
          /\ caster' = [shape |-> world.true, rot |-> 0]
          /\ ii' = 1
          /\ pc' = "loop"
          /\ NewPhase("explore")
          /\ UNCHANGED <<exitStatus, exc, t, state, targets, Ra,
                         intersections, ast_ints, wi, site, in_view,
                         explore_mesh,
                         steps>>
  /\ CalledWith("control_sim")
  /\ UNCHANGED <<world, eom>>

(* --------------------------- the tick loop ------------------------------ *)

\* while system.successful() and system.t < tf: ... falls through
LoopExit ==
  /\ pc = "loop"
  /\ mode \in {"explore", "refine", "landing"}
  /\ ~(sys.ok /\ sys.t.v < tf)
  /\ Exit(0, "none")
  /\ UNCHANGED <<fileExists, archive, world, eom, mode, name, runs, cmdline, history>>

\* Integrate, with a loop test that does not ask system.successful()
IntegrateAfterFailure(ok) ==
  /\ pc = "loop"
  /\ mode \in {"explore", "refine", "landing"}
  /\ sys.t.v < tf
  /\ t' = Add(sys.t, dt)
  /\ \E e \in OffSO3 :
       sys' = IF ok
              THEN [t |-> PyFloat(sys.t.v + dt), ok |-> TRUE, y |-> Flow(sys.y),
                    err |-> e]
              ELSE [t |-> PyFloat(sys.t.v), ok |-> FALSE, y |-> sys.y,
                    err |-> e]
  /\ state' = sys'.y
  /\ pc' = IF mode = "landing" THEN "persist" ELSE "targets"
  /\ wi' = 0
  /\ steps' = <<"integrate">>
  /\ nInteg' = nInteg + 1
  /\ failTick' = IF ~ok THEN ii ELSE failTick
  /\ lastTick' = IF mode = "landing"
                 THEN [lastTick EXCEPT !["landing"] =
                         [ii |-> ii, t |-> t'.v, tf |-> tf, state |-> state',
                          est |-> est, key |-> Str(t'), site |-> site]]
                 ELSE lastTick
  /\ UNCHANGED <<fileExists, archive, world, eom, mode, name, runs, cmdline, exitStatus,
                 exc, time, ii, tickData, est, handoff, nUpd, begun>>

\* Integrate, with the landing tick going on to the raycast and the update
IntegrateThenCast(ok) ==
  /\ pc = "loop"
  /\ mode \in {"explore", "refine", "landing"}
  /\ sys.ok /\ sys.t.v < tf
  /\ t' = Add(sys.t, dt)
  /\ \E e \in OffSO3 :
       sys' = IF ok
              THEN [t |-> PyFloat(sys.t.v + dt), ok |-> TRUE, y |-> Flow(sys.y),
                    err |-> e]
              ELSE [t |-> PyFloat(sys.t.v), ok |-> FALSE, y |-> sys.y,
                    err |-> e]
  /\ state' = sys'.y
  /\ pc' = "targets"
  /\ wi' = 0
  /\ steps' = <<"integrate">>
  /\ nInteg' = nInteg + 1
  /\ failTick' = IF ~ok THEN ii ELSE failTick
  /\ lastTick' = IF mode = "landing"
                 THEN [lastTick EXCEPT !["landing"] =
                         [ii |-> ii, t |-> t'.v, tf |-> tf, state |-> state',
                          est |-> est, key |-> Str(t'), site |-> site]]
                 ELSE lastTick
  /\ UNCHANGED <<fileExists, archive, world, eom, mode, name, runs, cmdline, exitStatus,
                 exc, time, ii, tickData, est, handoff, nUpd, begun>>

\* t = system.t + dt; state = system.integrate(system.t + dt)
Integrate(ok) ==
  /\ pc = "loop"
  /\ mode \in {"explore", "refine", "landing"}
  /\ sys.ok /\ sys.t.v < tf
  /\ t' = Add(sys.t, dt)
  /\ \E e \in OffSO3 :
       sys' = IF ok
              THEN [t |-> PyFloat(sys.t.v + dt), ok |-> TRUE, y |-> Flow(sys.y),
                    err |-> e]
              ELSE [t |-> PyFloat(sys.t.v), ok |-> FALSE, y |-> sys.y,
                    err |-> e]
  /\ state' = sys'.y
  /\ pc' = IF mode = "landing" THEN "persist" ELSE "targets"
  /\ wi' = 0
  /\ steps' = <<"integrate">>
  /\ nInteg' = nInteg + 1
  /\ failTick' = IF ~ok THEN ii ELSE failTick
  /\ lastTick' = IF mode = "landing"
                 THEN [lastTick EXCEPT !["landing"] =
                         [ii |-> ii, t |-> t'.v, tf |-> tf, state |-> state',
                          est |-> est, key |-> Str(t'), site |-> site]]
                 ELSE lastTick
  /\ UNCHANGED <<fileExists, archive, world, eom, mode, name, runs, cmdline, exitStatus,
                 exc, time, ii, tickData, est, handoff, nUpd, begun>>

\* targets = lidar.define_targets(state[0:3], R, norm(state[0:3]))
DefineTargets ==
  /\ pc = "targets"
  /\ targets' = define_targets(state)
  /\ pc' = "upload"
  /\ steps' = Append(steps, "targets")
  /\ UNCHANGED <<fileExists, archive, world, eom, mode, name, runs, cmdline, exitStatus,
                 exc, sys, time, t, ii, state, Ra, caster, intersections,
                 ast_ints, est, wi, handoff, history>>

\* UpdateMesh, with the caster keeping the mesh it was given last
UpdateMeshStale ==
  /\ pc = "upload"
  /\ Ra' = rot_ast2int(t)
  /\ caster' = caster
  /\ pc' = "cast"
  /\ steps' = Append(steps, "upload")
  /\ UNCHANGED <<fileExists, archive, world, eom, mode, name, runs, cmdline, exitStatus,
                 exc, sys, time, t, ii, state, targets, intersections,
                 ast_ints, est, wi, handoff, history>>

\* nv = rotate_vertices(t); Ra = rot_ast2int(t); caster.update_mesh(nv, f)
UpdateMesh ==
  /\ pc = "upload"
  /\ Ra' = rot_ast2int(t)
  /\ caster' = [shape |-> IF mode = "explore" THEN world.true ELSE world.bumpy,
                rot |-> rot_ast2int(t)]
  /\ pc' = "cast"
  /\ steps' = Append(steps, "upload")
  /\ UNCHANGED <<fileExists, archive, world, eom, mode, name, runs, cmdline, exitStatus,
                 exc, sys, time, t, ii, state, targets, intersections,
                 ast_ints, est, wi, handoff, history>>

\* intersections = caster.castarray(state[0:3], targets)
CastArray ==
  /\ pc = "cast"
  /\ intersections' = castarray(caster, state, targets)
  /\ pc' = "convert"
  /\ steps' = Append(steps, "cast")
  /\ UNCHANGED <<fileExists, archive, world, eom, mode, name, runs, cmdline, exitStatus,
                 exc, sys, time, t, ii, state, targets, Ra, caster,
                 ast_ints, est, wi, handoff, history>>

\* ToAsteroidFrame, with a miss test that includes the threshold
ToAsteroidFrameInclusive(rot, pt) == IF Norm(pt) <= MissEps THEN NaN ELSE RotT(rot, pt)

\* one point of the batch in the asteroid frame
ToAsteroidFrame(rot, pt) == IF Norm(pt) < MissEps THEN NaN ELSE RotT(rot, pt)

\* Convert, with the reconstruction update left out of the tick
ConvertSkipsUpdate ==
  /\ pc = "convert"
  /\ ast_ints' = [i \in 1..Len(intersections) |->
                    ToAsteroidFrame(Ra, intersections[i])]
  /\ pc' = "persist"
  /\ steps' = Append(steps, "convert")
  /\ UNCHANGED <<fileExists, archive, world, eom, mode, name, runs, cmdline, exitStatus,
                 exc, sys, time, t, ii, state, targets, Ra, caster,
                 intersections, est, wi, handoff, history>>

\* for pt in intersections: ... ast_ints.append(pt_ast)
Convert ==
  /\ pc = "convert"
  /\ ast_ints' = [i \in 1..Len(intersections) |->
                    ToAsteroidFrame(Ra, intersections[i])]
  /\ pc' = "update"
  /\ steps' = Append(steps, "convert")
  /\ UNCHANGED <<fileExists, archive, world, eom, mode, name, runs, cmdline, exitStatus,
                 exc, sys, time, t, ii, state, targets, Ra, caster,
                 intersections, est, wi, handoff, history>>

\* TickKey, with every phase keying its ticks by the time
TickKeyByTime == Str(t)

\* the key of the running tick in the per-tick groups
TickKey == IF mode \in {"explore", "refine"} THEN Str(PyInt(ii)) ELSE Str(t)

\* est_ast_rmesh.update(ast_ints, max_angle)
Update ==
  /\ pc = "update"
  /\ est' = update(est, ast_ints)
  /\ pc' = "persist"
  /\ wi' = 0
  /\ steps' = Append(steps, "update")
  /\ nUpd' = nUpd + 1
  /\ lastTick' = [lastTick EXCEPT ![PhaseOf(mode)] =
                    [ii |-> ii, t |-> t.v, tf |-> tf, state |-> state,
                     est |-> est', key |-> TickKey, site |-> site]]
  /\ UNCHANGED <<fileExists, archive, world, eom, mode, name, runs, cmdline, exitStatus,
                 exc, sys, time, t, ii, state, tickData, handoff, nInteg,
                 failTick, begun>>

\* Order, with the Ra dataset of a tick not written
OrderWithoutRa == IF mode = "landing" THEN <<"state">> ELSE SubSeq(PersistOrder, 1, 5) \o SubSeq(PersistOrder, 7, 8)

\* the groups a tick of the running phase writes, in order
Order == IF mode = "landing" THEN LandingOrder ELSE PersistOrder

\* TickValue, with the state group given the initial state of the phase
TickValueInitialState(g) ==
  CASE g = "reconstructed_vertex" -> est.v
    [] g = "reconstructed_face" -> est.f
    [] g = "reconstructed_weight" -> est.w
    [] g = "state" -> initial_state
    [] g = "targets" -> targets
    [] g = "Ra" -> IF mode = "landing" THEN rot_ast2int(t) ELSE Ra
    [] g = "inertial_intersections" -> intersections
    [] g = "asteroid_intersections" -> ast_ints

\* the data of the running tick stored in group g
TickValue(g) ==
  CASE g = "reconstructed_vertex" -> est.v
    [] g = "reconstructed_face" -> est.f
    [] g = "reconstructed_weight" -> est.w
    [] g = "state" -> state
    [] g = "targets" -> targets
    [] g = "Ra" -> IF mode = "landing" THEN rot_ast2int(t) ELSE Ra
    [] g = "inertial_intersections" -> intersections
    [] g = "asteroid_intersections" -> ast_ints

\* one <group>.create_dataset(str(ii), data=...) of the tick; after the
\* last one the tick ends with ii += 1
Persist ==
  /\ pc = "persist"
  /\ wi < Len(Order)
  /\ archive' = Put(archive, Prefix \o <<Order[wi + 1], TickKey>>,
                    TickValue(Order[wi + 1]))
  /\ wi' = wi + 1
  /\ steps' = IF wi = 0 THEN Append(steps, "persist") ELSE steps
  /\ IF wi + 1 = Len(Order)
     THEN ii' = ii + 1 /\ pc' = "loop"
     ELSE UNCHANGED <<ii, pc>>
  /\ UNCHANGED <<fileExists, world, eom, mode, name, runs, cmdline, exitStatus, exc, sys,
                 time, t, state, tickData, est, handoff, history>>

\* a create_dataset raises (the archive cannot be written): the exception
\* leaves the with block, which closes the file, and ends the process
WriteFail ==
  /\ pc = "persist"
  /\ wi < Len(Order)
  /\ Exit(1, "WriteError")
  /\ UNCHANGED <<fileExists, archive, world, eom, mode, name, runs, cmdline, history>>

(* ------------------------- phase hand-off ------------------------------- *)

\* the hand-off datasets a later phase reads below prefix q
HandoffGroups ==
  << "state", "Ra", "reconstructed_vertex", "reconstructed_face",
     "reconstructed_weight" >>

\* TerminalKey, with the key of the tick before the last sample of time
TerminalKeyBeforeLast(a, q) == Str(PyInt(Last(a[q \o <<"time">>]) - 1))

\* the key of the terminal tick: str(hf[q + 'time'][()][-1])
TerminalKey(a, q) == Str(PyInt(Last(a[q \o <<"time">>])))

\* h5py raises KeyError when a name read by the hand-off is missing
CanRead(a, q) ==
  /\ Has(a, q \o <<"state">>)
  /\ Has(a, q \o <<"time">>)
  /\ \A i \in 1..Len(HandoffGroups) :
       Has(a, q \o <<HandoffGroups[i], TerminalKey(a, q)>>)
  /\ Has(a, <<"simulation_parameters", "true_asteroid", "name">>)

\* hf[q + g + '/' + str(explore_tf)][()]
ReadTerminal(a, q, g) == a[q \o <<g, TerminalKey(a, q)>>]

ReadMesh(a, q) ==
  [v |-> ReadTerminal(a, q, "reconstructed_vertex"),
   f |-> ReadTerminal(a, q, "reconstructed_face"),
   w |-> ReadTerminal(a, q, "reconstructed_weight")]

(* ------------------------ refinement: start ----------------------------- *)

\* StartRefine, with the refinement group deleted before the name is looked at
StartRefineDeletesFirst(m, nm) ==
  /\ pc = "idle"
  /\ runs < MaxRuns
  /\ runs' = runs + 1
  /\ mode' = m
  /\ name' = nm
  /\ IF ~fileExists
     THEN \* h5py.File(output_filename, 'r') of a missing file
          /\ Exit(1, "OSError")
          /\ UNCHANGED <<fileExists, archive, history>>
     ELSE IF ~CanRead(archive, <<>>)
     THEN /\ Exit(1, "KeyError")
          /\ UNCHANGED <<fileExists, archive, history>>
     ELSE IF nm # "castalia"
     THEN /\ Exit(1, "TypeError")
          /\ archive' = Delete(archive, <<"refinement">>)
          /\ UNCHANGED <<fileExists, history>>
     ELSE /\ time' = IF m = "refine"
                     THEN Arange(0, refine_steps)
                     ELSE Arange(max_steps, max_steps + kin_steps)
          /\ explore_mesh' = ReadMesh(archive, <<>>)
          /\ est' = explore_mesh'
          /\ initial_state' = ReadTerminal(archive, <<>>, "state")
          /\ caster' = [shape |-> world.bumpy, rot |-> 0]
          /\ archive' =
               PutAll(Delete(archive, <<"refinement">>),
                      << << <<"refinement">>, GROUP >>,
                         << <<"refinement", "time">>, time' >>,
                         << <<"refinement", "initial_state">>, initial_state' >> >>
                        \o GroupPuts(<<"refinement">>))
          /\ site' = RefineSpot
          /\ in_view' = 0
          /\ pc' = "remesh"
          /\ NewPhase(m)
          /\ UNCHANGED <<fileExists, exitStatus, exc, sys, t, ii, state,
                         targets, Ra, intersections, ast_ints, wi, steps>>
  /\ CalledWith(IF m = "refine" THEN "landing_refine"
                ELSE "landing_kinematic_refine")
  /\ UNCHANGED <<world, eom>>

\* -lr / -lkr: refine_landing_area or kinematics_refine_landing_area up to
\* the creation of the refinement group; the kinematic variant waits for
\* ENTER before it deletes an existing group, and the user gives it
StartRefine(m, nm) ==
  /\ pc = "idle"
  /\ runs < MaxRuns
  /\ runs' = runs + 1
  /\ mode' = m
  /\ name' = nm
  /\ IF ~fileExists
     THEN \* h5py.File(output_filename, 'r') of a missing file
          /\ Exit(1, "OSError")
          /\ UNCHANGED <<fileExists, archive, history>>
     ELSE IF ~CanRead(archive, <<>>)
     THEN /\ Exit(1, "KeyError")
          /\ UNCHANGED <<fileExists, archive, history>>
     ELSE IF nm # "castalia"
     THEN \* initialize_refinement returns 1; unpacking it raises TypeError
          /\ Exit(1, "TypeError")
          /\ UNCHANGED <<fileExists, archive, history>>
     ELSE /\ time' = IF m = "refine"
                     THEN Arange(0, refine_steps)
                     ELSE Arange(max_steps, max_steps + kin_steps)
          /\ explore_mesh' = ReadMesh(archive, <<>>)
          /\ est' = explore_mesh'
          /\ initial_state' = ReadTerminal(archive, <<>>, "state")
          /\ caster' = [shape |-> world.bumpy, rot |-> 0]
          /\ archive' =
               PutAll(Delete(archive, <<"refinement">>),
                      << << <<"refinement">>, GROUP >>,
                         << <<"refinement", "time">>, time' >>,
                         << <<"refinement", "initial_state">>, initial_state' >> >>
                        \o GroupPuts(<<"refinement">>))
          /\ site' = RefineSpot
          /\ in_view' = 0
          /\ pc' = "remesh"
          /\ NewPhase(m)
          /\ UNCHANGED <<fileExists, exitStatus, exc, sys, t, ii, state,
                         targets, Ra, intersections, ast_ints, wi, steps>>
  /\ CalledWith(IF m = "refine" THEN "landing_refine"
                ELSE "landing_kinematic_refine")
  /\ UNCHANGED <<world, eom>>

\* Remesh, with the vertices in view set before the mesh is refined
RemeshAfterView ==
  /\ pc = "remesh"
  /\ est' = remesh_faces_in_view(est)
  /\ in_view' = est.f
  /\ IF mode = "refine"
     THEN /\ sys' = [t |-> PyInt(time[1]), ok |-> TRUE, y |-> initial_state,
                  err |-> 0]
          /\ ii' = 1
          /\ state' = state
     ELSE /\ state' = initial_state
          /\ ii' = 0
          /\ sys' = sys
  /\ pc' = "loop"
  /\ UNCHANGED <<fileExists, archive, world, eom, mode, name, runs, cmdline, exitStatus,
                 exc, time, t, tickData, wi, site, initial_state,
                 explore_mesh, steps, history>>

\* est_ast_meshdata.remesh_faces_in_view(...), then
\* complete_controller.set_vertices_in_view(est_ast_rmesh, ...): in_view is
\* the number of faces of the mesh the view is taken from; then the
\* integrator is set to the initial state at t0
Remesh ==
  /\ pc = "remesh"
  /\ est' = remesh_faces_in_view(est)
  /\ in_view' = est'.f
  /\ IF mode = "refine"
     THEN /\ sys' = [t |-> PyInt(time[1]), ok |-> TRUE, y |-> initial_state,
                  err |-> 0]
          /\ ii' = 1
          /\ state' = state
     ELSE /\ state' = initial_state
          /\ ii' = 0
          /\ sys' = sys
  /\ pc' = "loop"
  /\ UNCHANGED <<fileExists, archive, world, eom, mode, name, runs, cmdline, exitStatus,
                 exc, time, t, tickData, wi, site, initial_state,
                 explore_mesh, steps, history>>

(* --------------------- kinematic refinement loop ------------------------ *)

\* the state the controller asks for at time t above the landing site
KinematicState(x) == 100 + x.v

\* KinematicStep, with the tick time taken as a float
KinematicStepFloatTime ==
  /\ pc = "loop"
  /\ mode = "kinrefine"
  /\ ii < Len(time)
  /\ t' = PyFloat(time[ii + 1])
  /\ Ra' = rot_ast2int(t')
  /\ state' = KinematicState(t')
  /\ initial_state' = state'
  /\ pc' = "targets"
  /\ wi' = 0
  /\ steps' = <<"control">>
  /\ UNCHANGED <<fileExists, archive, world, eom, mode, name, runs, cmdline, exitStatus,
                 exc, sys, time, ii, targets, caster, intersections,
                 ast_ints, est, site, in_view, explore_mesh, history>>

\* for ii, t in enumerate(time): Ra = rot_ast2int(t); the controller's
\* desired state overwrites the state in place, and state is the same array
\* as initial_state
KinematicStep ==
  /\ pc = "loop"
  /\ mode = "kinrefine"
  /\ ii < Len(time)
  /\ t' = PyInt(time[ii + 1])
  /\ Ra' = rot_ast2int(t')
  /\ state' = KinematicState(t')
  /\ initial_state' = state'
  /\ pc' = "targets"
  /\ wi' = 0
  /\ steps' = <<"control">>
  /\ UNCHANGED <<fileExists, archive, world, eom, mode, name, runs, cmdline, exitStatus,
                 exc, sys, time, ii, targets, caster, intersections,
                 ast_ints, est, site, in_view, explore_mesh, history>>

\* the for loop has run through time
KinematicExit ==
  /\ pc = "loop"
  /\ mode = "kinrefine"
  /\ ii >= Len(time)
  /\ Exit(0, "none")
  /\ UNCHANGED <<fileExists, archive, world, eom, mode, name, runs, cmdline, history>>

(* -------------------------- landing: start ------------------------------ *)

\* -l: landing(args.simulation_data, desired_landing_spot) up to its loop;
\* it waits for ENTER before it deletes an existing landing group, and the
\* user gives it
StartLanding(nm) ==
  /\ pc = "idle"
  /\ runs < MaxRuns
  /\ runs' = runs + 1
  /\ mode' = "landing"
  /\ name' = nm
  /\ IF ~fileExists
     THEN /\ Exit(1, "OSError")
          /\ UNCHANGED <<fileExists, archive, history>>
     ELSE IF ~CanRead(archive, <<"refinement">>)
     THEN /\ Exit(1, "KeyError")
          /\ UNCHANGED <<fileExists, archive, history>>
     ELSE /\ time' = LET explore_tf == Last(archive[<<"refinement", "time">>])
                     IN  Arange(explore_tf, explore_tf + land_steps)
          /\ explore_mesh' = ReadMesh(archive, <<"refinement">>)
          /\ est' = explore_mesh'
          /\ initial_state' = ReadTerminal(archive, <<"refinement">>, "state")
          /\ archive' =
               PutAll(Delete(archive, <<"landing">>),
                      << << <<"landing">>, GROUP >>,
                         << <<"landing", "time">>, time' >>,
                         << <<"landing", "initial_state">>, initial_state' >>,
                         << <<"landing", "vertices">>, explore_mesh'.v >>,
                         << <<"landing", "faces">>, explore_mesh'.f >>,
                         << <<"landing", "weight">>, explore_mesh'.w >>,
                         << <<"landing", "state">>, GROUP >>,
                         << <<"landing", "Ra">>, GROUP >> >>)
          /\ sys' = [t |-> PyInt(time'[1]), ok |-> TRUE, y |-> initial_state',
                  err |-> 0]
          /\ site' = LandingSpot
          /\ in_view' = 0
          /\ ii' = 1
          /\ pc' = "loop"
          /\ NewPhase("landing")
          /\ UNCHANGED <<fileExists, exitStatus, exc, t, state, tickData,
                         wi, steps>>
  /\ CalledWith("landing")
  /\ UNCHANGED <<world, eom>>

Next ==
  \/ \E nm \in Names : StartControlSim(nm)
  \/ \E nm \in Names : StartRefine("refine", nm)
  \/ \E nm \in Names : StartRefine("kinrefine", nm)
  \/ \E nm \in Names : StartLanding(nm)
  \/ Remesh
  \/ KinematicStep
  \/ KinematicExit
  \/ LoopExit
  \/ \E ok \in BOOLEAN : Integrate(ok)
  \/ DefineTargets
  \/ UpdateMesh
  \/ CastArray
  \/ Convert
  \/ Update
  \/ Persist
  \/ WriteFail

Spec == Init /\ [][Next]_vars

\* the same invocations and loops, FrameRuns of them on the archive
FrameNext == Next /\ runs' <= FrameRuns

FrameSpec == Init /\ [][FrameNext]_vars

(* ----------------- the entry point up to the mode function -------------- *)

\* the functions of the chain that only read the archive (plots and
\* animations); their bodies leave the state of the model as it is
Viewers ==
  { "reconstruct_images", "plot_volume", "plot_uncertainty",
    "refine_site_plots", "plot_state_trajectory", "landing_site_plots",
    "animate", "animate_uncertainty", "save_animation", "animate_landing",
    "save_animate_landing", "animate_refinement", "save_animate_refinement" }

\* parser.parse_args() with two options of the group: parser.error prints
\* the usage and ends the process with status 2 before any function runs
ArgumentError(given) ==
  /\ pc = "idle"
  /\ runs < MaxRuns
  /\ Conflict(given)
  /\ runs' = runs + 1
  /\ mode' = "none"
  /\ args' = NoArgs
  /\ called' = <<>>
  /\ exitStatus' = 2
  /\ exc' = "SystemExit"
  /\ UNCHANGED <<fileExists, archive, world, eom, pc, name, sys, time, t, ii,
                 state, tickData, est, wi, handoff, steps, history>>

\* the entry point with no option of the group, or with one whose function
\* is a viewer (or whose test in the chain is false); a viewer opens the
\* archive with mode 'r', which raises OSError when the file is missing,
\* and raises KeyError when a dataset it reads is missing
Main(given) ==
  /\ pc = "idle"
  /\ runs < MaxRuns
  /\ ~Conflict(given)
  /\ \A k \in DOMAIN Dispatch(Namespace(given)) :
       Dispatch(Namespace(given))[k] \in Viewers
  /\ runs' = runs + 1
  /\ mode' = "none"
  /\ args' = Namespace(given)
  /\ called' = Dispatch(Namespace(given))
  /\ IF Dispatch(Namespace(given)) = <<>>
     THEN exitStatus' = 0 /\ exc' = "none"
     ELSE IF ~fileExists
     THEN exitStatus' = 1 /\ exc' = "OSError"
     ELSE \/ exitStatus' = 0 /\ exc' = "none"
          \/ exitStatus' = 1 /\ exc' = "KeyError"
  /\ UNCHANGED <<fileExists, archive, world, eom, pc, name, sys, time, t, ii,
                 state, tickData, est, wi, handoff, steps, history>>

\* the simulation functions of the chain
Simulations ==
  {"simulate_control", "refine_landing_area",
   "kinematics_refine_landing_area", "landing"}

\* the entry point with the one option of a simulation function: the call
\* of the function, up to its loop
Call(nm, given) ==
  /\ ~Conflict(given)
  /\ \E fn \in Simulations :
       /\ Dispatch(Namespace(given)) = <<fn>>
       /\ CASE fn = "simulate_control" -> StartControlSim(nm)
            [] fn = "refine_landing_area" -> StartRefine("refine", nm)
            [] fn = "kinematics_refine_landing_area" -> StartRefine("kinrefine", nm)
            [] fn = "landing" -> StartLanding(nm)

\* the invocations of the entry point, each followed up to the loop of the
\* function it calls; the loops are the actions of Next
MainNext ==
  \/ \E given \in CommandLines : ArgumentError(given)
  \/ \E given \in CommandLines : Main(given)
  \/ \E nm \in Names, given \in CommandLines : Call(nm, given)

MainSpec == Init /\ [][MainNext]_vars

(* ------------------- calls of the equations of motion ------------------ *)

\* a call fn(t, state, dum, ast, *rest): python raises TypeError when the
\* number of arguments is not the number of parameters; otherwise the body
\* runs once, calling ast.polyhedron_potential at z1 and then at z2
EomCall(fn, tm, x, dum, rest) ==
  /\ pc = "idle"
  /\ eom' =
       IF 4 + Len(rest) # Arity(fn)
       THEN [NoCall EXCEPT !.fn = fn, !.t = tm, !.x = x, !.dum = dum,
                           !.rest = rest, !.raised = "TypeError"]
       ELSE [fn |-> fn, t |-> tm, x |-> x, dum |-> dum, rest |-> rest,
             raised |-> "none",
             potential |-> FieldPoints(fn, tm, x, dum),
             F |-> Forces(fn, tm, dum, Gradients(fn, tm, x, dum)),
             M |-> Moments(fn, tm, x, dum, Gradients(fn, tm, x, dum)),
             tran |-> DesTran(fn, tm, rest),
             des |-> Desired(fn, tm, rest),
             pos_dot |-> PosDot(fn, x),
             vel_dot |-> VelDot(fn, tm, x, dum, rest),
             R_dot |-> RDot(fn, x),
             w_dot |-> WDot(fn, tm, x, dum)]
  /\ UNCHANGED <<fileExists, archive, world, pc, mode, name, runs, cmdline,
                 exitStatus, exc, sys, time, t, ii, state, tickData, est, wi,
                 handoff, steps, history>>

EomNext ==
  \E fn \in EomNames, tm \in EomTimes, x \in EomStates, dum \in Dumbbells,
     rest \in Trailing : EomCall(fn, tm, x, dum, rest)

EomSpec == Init /\ [][EomNext]_vars

(* ------------------------------ claims ---------------------------------- *)

Range(f) == {f[i] : i \in DOMAIN f}

\* the steps of a tick of simulate_control and refine_landing_area
TickSteps ==
  << "integrate", "targets", "upload", "cast", "convert", "update", "persist" >>

\* C1: in every tick of the exploration loop and of the dynamic refinement
\* loop the steps occur in the order integrate, targets, upload, cast,
\* convert, update, persist; the update of tick k comes after the
\* integration to tick k and before the integration towards tick k+1.
C1_TickOrder ==
  (mode \in {"explore", "refine"} /\ pc \notin {"idle", "remesh"}) =>
    /\ IsPrefix(steps, TickSteps)
    /\ pc = "loop" => steps \in {<<>>, TickSteps}
    /\ nUpd = IF "update" \in Range(steps) \/ steps = <<>>
              THEN nInteg
              ELSE nInteg - 1

C1_Witness ==
  /\ mode = "refine" /\ pc = "loop"
  /\ nInteg = 2 /\ nUpd = 2
  /\ steps = TickSteps

\* C2: once the integrator reports non-success at a tick, no further
\* integration step is taken in that phase; the loop ends at that tick.
C2_NoStepAfterFailure ==
  failTick > 0 =>
    /\ nInteg = failTick
    /\ pc # "idle" => ii \in {failTick, failTick + 1}

C2_Witness ==
  /\ pc = "idle" /\ mode = "landing" /\ exc = "none"
  /\ failTick = 1
  /\ Len(archive[<<"landing", "time">>]) > 2

\* the running or last phase ended because the integrator diverged
EndedByDivergence ==
  /\ pc = "idle" /\ exc = "none" /\ failTick > 0
  /\ begun # <<>> /\ Last(begun) = mode

PrefixOf(m) ==
  CASE m = "explore" -> <<>>
    [] m \in {"refine", "kinrefine"} -> <<"refinement">>
    [] m = "landing" -> <<"landing">>

\* the key under which tick j of a landing is stored: the first tick time
\* is an integer, the later ones are floats
LandingKey(j) ==
  LET t0 == archive[<<"landing", "time">>][1]
  IN  IF j = 1 THEN IntStr(t0 + 1) ELSE IntStr(t0 + j) \o ".0"

ExpectedKey(m, j) == IF m = "landing" THEN LandingKey(j) ELSE IntStr(j)

GroupsOf(m) == IF m = "landing" THEN {"state", "Ra"} ELSE TickGroups

\* C3: when a phase ends because the integrator diverged at tick k, it ends
\* cleanly and all per-tick datasets of every tick j < k are in the archive.
C3_CompletedTicksPersisted ==
  EndedByDivergence =>
    /\ exitStatus = 0
    /\ \A j \in 1..(failTick - 1) : \A g \in GroupsOf(mode) :
         Has(archive, PrefixOf(mode) \o <<g, ExpectedKey(mode, j)>>)

C3_Witness ==
  /\ EndedByDivergence
  /\ mode = "explore"
  /\ failTick = 2

\* the exit status the specification asks for
SpecifiedExit ==
  CASE exc = "TypeError" -> 1
    [] exc \in {"OSError", "KeyError"} /\ mode # "explore" -> 3
    [] EndedByDivergence -> 2
    [] exc = "none" /\ ~EndedByDivergence -> 0
    [] OTHER -> exitStatus

\* C4: the exit status is 0 on success, 1 when the asteroid name is
\* unknown, 2 when the integrator diverges, 3 when the archive is missing
\* or malformed.
C4_ExitStatus == (pc = "idle" /\ runs > 0) => exitStatus = SpecifiedExit

\* the batch handed to the update is the converted batch of the tick
ConvertedBatch ==
  /\ Len(targets) = NumRays
  /\ Len(intersections) = NumRays
  /\ Len(ast_ints) = NumRays
  /\ \A i \in 1..NumRays :
       /\ targets[i][2] = i
       /\ ast_ints[i] = IF intersections[i][1] * 5 < 10
                        THEN NaN
                        ELSE RotT(rot_ast2int(t), intersections[i])

\* C5: for every tick and every ray i the measurement passed to the update
\* is the NaN triple exactly when the returned point has norm < 1e-9 and
\* Ra(t)^T applied to the point otherwise; the batch has the length and
\* order of the ray grid, and a miss never aborts the tick.
C5_MissIsNaN == [][pc = "convert" => (pc' = "update" /\ ConvertedBatch')]_vars

C5_Witness ==
  /\ pc = "loop" /\ mode = "explore"
  /\ \E i, j \in DOMAIN ast_ints :
       /\ intersections[i][1] = 1
       /\ ast_ints[i] = NaN
       /\ IsFinite(ast_ints[j])

\* C6: per-tick persistence is atomic: whenever the archive is closed, also
\* after a write failure in the middle of a tick, every tick is in all
\* per-tick groups or in none.
C6_AtomicTicks ==
  pc = "idle" =>
    \A q \in {<<>>, <<"refinement">>} : \A g, h \in TickGroups :
      Keys(archive, q \o <<g>>) = Keys(archive, q \o <<h>>)

\* C7: after N ticks of the exploration phase each of the eight per-tick
\* groups holds exactly the keys "1" .. "N".
C7_ExplorationKeys ==
  (mode = "explore" /\ pc = "loop") =>
    /\ nInteg = ii - 1
    /\ \A g \in TickGroups :
         Keys(archive, <<g>>) = {IntStr(k) : k \in 1..(ii - 1)}

C7_Witness ==
  /\ mode = "explore" /\ pc = "loop"
  /\ ii = max_steps
  /\ sys.ok

\* the number of ticks the running phase has completed
TicksDone == IF mode = "kinrefine" THEN ii ELSE ii - 1

\* the sub-tree below q has the shape of the exploration tree with keys ks
TreeShape(q, ks) ==
  /\ Has(archive, q \o <<"time">>)
  /\ Has(archive, q \o <<"initial_state">>)
  /\ \A g \in TickGroups :
       /\ Has(archive, q \o <<g>>)
       /\ Keys(archive, q \o <<g>>) = ks

\* C8 as stated: the refinement and landing sub-trees have the shape of the
\* exploration tree, eight per-tick groups keyed by k = 1..N.
C8_SameShape ==
  (pc = "loop" /\ mode \in {"refine", "kinrefine", "landing"}) =>
    TreeShape(Prefix, {IntStr(k) : k \in 1..TicksDone})

\* C8 amended: refine_landing_area writes the shape of the exploration
\* tree; kinematics_refine_landing_area writes the eight groups keyed by
\* the tick times time[0], time[1], ...; landing writes time,
\* initial_state, vertices, faces, weight and only the groups state and Ra,
\* keyed by str(t) of the tick time.
C8_PhaseTrees ==
  pc = "loop" =>
    /\ mode = "refine" =>
         TreeShape(<<"refinement">>, {IntStr(k) : k \in 1..TicksDone})
    /\ mode = "kinrefine" =>
         TreeShape(<<"refinement">>,
                   {IntStr(archive[<<"refinement", "time">>][k]) : k \in 1..TicksDone})
    /\ mode = "landing" =>
         /\ \A d \in {"time", "initial_state", "vertices", "faces", "weight"} :
              Has(archive, <<"landing", d>>)
         /\ \A g \in {"state", "Ra"} :
              /\ Has(archive, <<"landing", g>>)
              /\ Keys(archive, <<"landing", g>>) = {LandingKey(k) : k \in 1..TicksDone}
         /\ \A g \in TickGroups \ {"state", "Ra"} :
              ~Has(archive, <<"landing", g>>)

C8_Witness ==
  /\ pc = "loop" /\ mode = "landing"
  /\ ii = 3
  /\ Keys(archive, <<"refinement", "state">>) # {"1", "2"}

Rank(m) ==
  CASE m = "explore" -> 1
    [] m \in {"refine", "kinrefine"} -> 2
    [] m = "landing" -> 3

\* C9 as stated: phases execute only in the order explore, refine, land.
C9_PhaseOrder ==
  \A i, j \in DOMAIN begun : i < j => Rank(begun[i]) <= Rank(begun[j])

\* C9 amended: exploration begins only on a fresh archive, hence first and
\* once; a refinement begins only from an archive holding the terminal tick
\* of an exploration that ran to the last tick of its horizon; a landing
\* begins only from an archive holding the terminal tick of a refinement
\* that ran to the last tick of its horizon; a refinement may begin again,
\* also after a landing.
C9_HandoffOrder ==
  /\ \A i \in DOMAIN begun : (begun[i] = "explore") <=> (i = 1)
  /\ \A i \in DOMAIN begun :
       begun[i] = "landing" => \E j \in 1..(i - 1) : Rank(begun[j]) = 2
  /\ (mode \in {"refine", "kinrefine"} /\ pc # "idle") =>
       /\ lastTick["explore"].ii > 0
       /\ lastTick["explore"].t = lastTick["explore"].tf
  /\ (mode = "landing" /\ pc # "idle") =>
       /\ lastTick["refinement"].tf > 0
       /\ lastTick["refinement"].t = lastTick["refinement"].tf

C9_Witness ==
  /\ pc = "loop"
  /\ Len(begun) = 4
  /\ begun[3] = "landing"
  /\ begun[4] = "refine"

\* C10: the initial state and the estimated mesh of a refinement equal the
\* state and mesh persisted at the terminal tick of the exploration, and
\* those of a landing equal the ones persisted at the terminal tick of the
\* refinement.
C10_LosslessHandoff ==
  /\ (mode \in {"refine", "kinrefine"} /\ pc # "idle") =>
       /\ archive[<<"refinement", "initial_state">>] = lastTick["explore"].state
       /\ explore_mesh = lastTick["explore"].est
       /\ pc = "remesh" =>
            /\ initial_state = lastTick["explore"].state
            /\ est = lastTick["explore"].est
  /\ (mode = "landing" /\ pc # "idle") =>
       /\ archive[<<"landing", "initial_state">>] = lastTick["refinement"].state
       /\ archive[<<"landing", "vertices">>] = lastTick["refinement"].est.v
       /\ archive[<<"landing", "faces">>] = lastTick["refinement"].est.f
       /\ archive[<<"landing", "weight">>] = lastTick["refinement"].est.w
       /\ initial_state = lastTick["refinement"].state
       /\ est = lastTick["refinement"].est
       /\ (pc = "loop" /\ ii = 1) => sys.y = lastTick["refinement"].state

C10_Witness ==
  /\ mode = "landing" /\ pc = "loop" /\ ii = 1
  /\ initial_state > 100
  /\ est.v # {}
  /\ est.f = 2

\* the exploration phase has run its loop and has ended through the loop test
ExplorationEnded ==
  /\ mode = "explore" /\ pc = "idle" /\ exc = "none"
  /\ Has(archive, <<"time">>)

\* C11: whenever the exploration phase has ended, by reaching its horizon
\* or by integrator non-success at any tick, the hand-off datasets state,
\* Ra, reconstructed_vertex, reconstructed_face and reconstructed_weight
\* under the key str(time[-1]) are in the archive.
C11_TerminalStateDefined ==
  ExplorationEnded =>
    \A i \in 1..Len(HandoffGroups) :
      Has(archive, <<HandoffGroups[i], TerminalKey(archive, <<>>)>>)

\* the phase that ran last ended through its loop test without a failure
EndedAtHorizon ==
  /\ pc = "idle" /\ exc = "none" /\ failTick = 0
  /\ begun # <<>> /\ Last(begun) = mode

\* the time vector the phase that ran last stored in the archive
StoredTime == archive[PrefixOf(mode) \o <<"time">>]

GivenOptions == {f \in Options : args[f] # Default(f)}

\* the mode function that belongs to an option
ModeFunction(f) ==
  CASE f = "control_sim" -> "simulate_control"
    [] f = "animate" -> "animate"
    [] f = "reconstruct" -> "reconstruct_images"
    [] f = "state" -> "plot_state_trajectory"
    [] f = "uncertainty" -> "plot_uncertainty"
    [] f = "animate_uncertainty" -> "animate_uncertainty"
    [] f = "volume" -> "plot_volume"
    [] f = "save_animation" -> "save_animation"
    [] f = "landing" -> "landing"
    [] f = "landing_animation" -> "animate_landing"
    [] f = "landing_save_animation" -> "save_animate_landing"
    [] f = "landing_plots" -> "landing_site_plots"
    [] f = "refine_plots" -> "refine_site_plots"
    [] f = "landing_refine" -> "refine_landing_area"
    [] f = "landing_kinematic_refine" -> "kinematics_refine_landing_area"
    [] f = "landing_refine_animation" -> "animate_refinement"
    [] f = "landing_refine_save_animation" -> "save_animate_refinement"

\* C13 as stated: an invocation executes at most one mode function; the
\* options of the group are mutually exclusive; the function executed is
\* exactly the one of the single option given, and none without an option.
C13_OneModeFunction ==
  /\ Len(called) <= 1
  /\ Cardinality(GivenOptions) <= 1
  /\ GivenOptions = {} => called = <<>>
  /\ \A f \in GivenOptions : called = <<ModeFunction(f)>>

\* C13 amended: an invocation executes at most one mode function; two
\* options of the group end the invocation in the parser with status 2 and
\* no function; with a single option the function executed is the one of
\* that option, unless the option stores a string and the string given is
\* empty, in which case no function is executed; without an option no
\* function is executed.
C13_Dispatch ==
  /\ Len(called) <= 1
  /\ Cardinality(GivenOptions) <= 1
  /\ GivenOptions = {} => called = <<>>
  /\ \A f \in GivenOptions :
       called = IF args[f] = "" THEN <<>> ELSE <<ModeFunction(f)>>
  /\ (pc = "idle" /\ exc = "SystemExit") =>
       called = <<>> /\ GivenOptions = {} /\ exitStatus = 2

C13_Witness ==
  /\ pc = "loop"
  /\ called = <<"simulate_control">>
  /\ args["control_sim"] = "True"
  /\ exc = "SystemExit"
  /\ exitStatus = 2

\* C14: at a tick at which the integrator reports non-success there is no
\* raycast, no update of the estimated mesh or of its weights, and no
\* per-tick dataset is written for that tick.
C14_OnlySuccessfulTicks ==
  (mode \in {"explore", "refine"} /\ pc \notin {"idle", "remesh"} /\ ~sys.ok) =>
    /\ pc \notin {"cast", "convert", "update", "persist"}
    /\ nUpd = failTick - 1
    /\ \A g \in TickGroups : ~Has(archive, Prefix \o <<g, IntStr(failTick)>>)

\* the body-frame mesh the running phase measures
BodyMesh == IF mode = "explore" THEN world.true ELSE world.bumpy

\* C15: at every tick the mesh in the caster when the rays are cast is the
\* body-frame mesh rotated by Ra(t) of that tick; the same Ra(t) maps the
\* intersections back to the asteroid frame and is the one persisted under
\* the tick; no cast uses the mesh uploaded at an earlier tick.
C15_MeshOfTheTick ==
  /\ (mode # "landing" /\ pc \in {"cast", "convert", "update", "persist"}) =>
       /\ caster = [shape |-> BodyMesh, rot |-> rot_ast2int(t)]
       /\ Ra = rot_ast2int(t)
  /\ (mode # "landing" /\ pc \in {"convert", "update", "persist"}) =>
       intersections =
         castarray([shape |-> BodyMesh, rot |-> rot_ast2int(t)], state, targets)
  /\ (mode # "landing" /\ pc \in {"update", "persist"}) =>
       \A i \in 1..NumRays :
         IsFinite(ast_ints[i]) => ast_ints[i] = RotT(rot_ast2int(t), intersections[i])
  /\ (mode \in {"explore", "refine", "kinrefine"} /\ pc = "loop" /\ TicksDone > 0) =>
       /\ archive[Prefix \o <<"Ra", lastTick[PhaseOf(mode)].key>>]
            = lastTick[PhaseOf(mode)].t % RotPeriod
       /\ archive[Prefix \o <<"inertial_intersections", lastTick[PhaseOf(mode)].key>>]
            = castarray([shape |-> BodyMesh, rot |-> lastTick[PhaseOf(mode)].t % RotPeriod],
                        state, targets)

C15_Witness ==
  /\ mode = "refine" /\ pc = "loop" /\ ii = 3
  /\ caster.rot = 2
  /\ archive[<<"refinement", "Ra", "1">>] = 1
  /\ archive[<<"refinement", "Ra", "2">>] = 2
  /\ \E i \in 1..NumRays : IsFinite(ast_ints[i])

\* the mass and the body-frame position of mass k of the dumbbell of the call
Mass(k) == IF k = 1 THEN eom.dum.m1 ELSE eom.dum.m2

Zeta(k) == IF k = 1 THEN eom.dum.zeta1 ELSE eom.dum.zeta2

\* the field point of mass k in the asteroid frame: p + R zeta_k in the
\* relative form, Ra^T (p + R zeta_k) in the inertial form
MassPoint(k) ==
  IF eom.fn = Relative
  THEN eom.x.pos + eom.x.R * Zeta(k)
  ELSE rot3(eom.t) * (eom.x.pos + eom.x.R * Zeta(k))

\* a right-hand side has been called and has returned a derivative
Returned == eom.fn # "none" /\ eom.raised = "none"

\* C19: every call of a right-hand side evaluates the polyhedron potential
\* exactly twice, at the field point of mass 1 and then of mass 2, and the
\* force and the moment of mass k are formed from the gradient at z_k only.
C19_TwoEvaluations ==
  Returned =>
    /\ Len(eom.potential) = 2
    /\ \A k \in 1..2 :
         /\ eom.potential[k] = MassPoint(k)
         /\ eom.F[k] = IF eom.fn = Relative
                       THEN Mass(k) * U_grad(MassPoint(k))
                       ELSE Mass(k) * rot3(eom.t) * U_grad(MassPoint(k))
         /\ eom.M[k] = IF eom.fn = Relative
                       THEN Mass(k) * (eom.x.R * Zeta(k)) * U_grad(MassPoint(k))
                       ELSE Mass(k) * Zeta(k) * (eom.x.R * rot3(eom.t) * U_grad(MassPoint(k)))

C19_Witness ==
  /\ Returned
  /\ eom.fn = "eoms_controlled_inertial_lissajous"
  /\ eom.t = 1 /\ eom.x.pos = 3 /\ eom.x.R = -1
  /\ eom.dum.m1 = 2
  /\ eom.potential = <<-4, -1>>
  /\ eom.F = <<-8, -1>>
  /\ eom.M = <<-8, 2>>

\* C20: the relative right-hand side takes the horizon tf and the number of
\* loops as parameters and hands them to its trajectory generator, as the
\* inertial right-hand sides do.
C20_RelativeTakesHorizon ==
  (eom.fn # "none" /\ Len(eom.rest) = 2) =>
    /\ eom.raised = "none"
    /\ eom.tran = << Generator(eom.fn), eom.t, eom.rest[1], eom.rest[2] >>

\* the running phase has begun a tick
TickBegun == pc \notin {"idle", "remesh"} /\ (steps # <<>> \/ TicksDone > 0)

\* the state dataset of the tick the running phase completed last
LastState == archive[Prefix \o <<"state", lastTick[PhaseOf(mode)].key>>]

\* C17 as stated: in every phase the state is written by the integrator
\* only, and the state persisted at a tick is the integrator's output.
C17_OnlyIntegrator ==
  TickBegun =>
    /\ state = sys.y
    /\ (pc = "loop" /\ TicksDone > 0) => LastState = sys.y

\* C17 amended: in the phases that integrate (exploration, dynamic
\* refinement, landing) the state is the integrator's output throughout a
\* tick and is persisted as such; the kinematic refinement has no
\* integrator: at every tick it overwrites the state, which is the same
\* array as initial_state, with the state the controller asks for at the
\* tick time, and persists that state.
C17_StateWriters ==
  /\ (TickBegun /\ mode # "kinrefine") =>
       /\ state = sys.y
       /\ (pc = "loop" /\ TicksDone > 0) => LastState = sys.y
  /\ (TickBegun /\ mode = "kinrefine") =>
       /\ state = KinematicState(t)
       /\ initial_state = state
       /\ sys.t = NoNum /\ sys.y = 0
       /\ (pc = "loop" /\ TicksDone > 0) => LastState = state

C17_Witness ==
  /\ mode = "kinrefine" /\ pc = "loop" /\ ii = 2
  /\ state # sys.y
  /\ LastState = state
  /\ initial_state # archive[<<"refinement", "initial_state">>]

\* C18: at each output tick the attitude block R of the state is projected
\* back onto SO(3) before it is used for the targets and before it is
\* persisted, so every persisted state has an orthonormal R.
C18_Reprojected ==
  (mode \in {"explore", "refine", "landing"} /\ pc \in {"targets", "persist"}) =>
    sys.err = 0

\* the derivative a call has returned
Derivative == << eom.pos_dot, eom.vel_dot, eom.R_dot, eom.w_dot >>

\* the derivative the right-hand side g returns for the arguments of the call
DerivativeOf(g) ==
  << PosDot(g, eom.x), VelDot(g, eom.t, eom.x, eom.dum, eom.rest),
     RDot(g, eom.x), WDot(g, eom.t, eom.x, eom.dum) >>

C22_AcceptedNamesRun ==
  fileExists =>
    /\ Has(archive, <<"time">>)
    /\ Has(archive, <<"initial_state">>)
    /\ \A g \in TickGroups : Has(archive, <<g>>)

\* an invocation of a simulation function begins in this step
Invoked == runs' = runs + 1 /\ mode' # "none"

\* C23: an unknown asteroid name leaves the archive untouched: simulate_control
\* with a name initialize_asteroid has no mesh for ends before an archive
\* file is created, and a refinement with a name other than 'castalia' ends
\* before the refinement group is deleted or anything is written.
C23_UnknownNameUntouched ==
  [][ /\ (Invoked /\ mode' = "explore" /\ name' \notin KnownNames) =>
           /\ pc' = "idle" /\ exc' = "TypeError"
           /\ fileExists' = fileExists /\ archive' = archive
      /\ (Invoked /\ mode' \in {"refine", "kinrefine"} /\ name' # "castalia") =>
           /\ pc' = "idle" /\ exc' \in {"OSError", "KeyError", "TypeError"}
           /\ fileExists' = fileExists /\ archive' = archive ]_vars

C23_Witness ==
  /\ pc = "idle" /\ exc = "TypeError"
  /\ mode = "refine" /\ name = "golevka"
  /\ begun = <<"explore", "kinrefine">>
  /\ Keys(archive, <<"refinement", "state">>)
       = {IntStr(archive[<<"refinement", "time">>][k]) : k \in 1..kin_steps}

\* C24: the exploration phase never overwrites an existing archive: when a
\* file exists at the archive path, the exclusive create of
\* initialize_asteroid fails, no tick is run and the contents of the file
\* are unchanged.
C24_NoOverwrite ==
  [][ (Invoked /\ mode' = "explore" /\ fileExists) =>
        /\ pc' = "idle"
        /\ exc' = IF name' \in KnownNames THEN "OSError" ELSE "TypeError"
        /\ exitStatus' = 1
        /\ fileExists' /\ archive' = archive
        /\ history' = history ]_vars

C24_Witness ==
  /\ pc = "idle" /\ exc = "OSError"
  /\ mode = "explore" /\ name = "castalia"
  /\ begun = <<"explore">>
  /\ \A g \in TickGroups :
       Keys(archive, <<g>>) = {IntStr(k) : k \in 1..(max_steps - 1)}

\* C25: later phases write only their own sub-tree: in every step of a run
\* of refine_landing_area or kinematics_refine_landing_area everything
\* outside the group refinement is unchanged, and in every step of a run of
\* landing everything outside the group landing; simulation_parameters,
\* time, initial_state and the exploration per-tick groups never change,
\* and a landing leaves the group refinement unchanged.
C25_OwnSubtree ==
  [][ (mode' \in {"refine", "kinrefine", "landing"} /\ archive' # archive) =>
        LET own == PrefixOf(mode')[1]
        IN  /\ \A p \in DOMAIN archive' :
                 p[1] # own => (p \in DOMAIN archive /\ archive'[p] = archive[p])
            /\ \A p \in DOMAIN archive :
                 p[1] # own => p \in DOMAIN archive'
            /\ fileExists' = fileExists ]_vars

C25_Witness ==
  /\ mode = "landing" /\ pc = "loop" /\ ii = 2
  /\ begun = <<"explore", "refine", "landing">>
  /\ Keys(archive, <<"landing", "state">>) # {}
  /\ Keys(archive, <<"refinement", "state">>) # {}
  /\ Keys(archive, <<"state">>) = {IntStr(k) : k \in 1..(max_steps - 1)}
  /\ Has(archive, <<"simulation_parameters", "true_asteroid", "name">>)

\* the phase whose terminal tick the running phase starts from
Previous == IF mode = "landing" THEN "refinement" ELSE "explore"

\* the time of the first tick of the running phase: the kinematic
\* refinement ticks at time[0], the phases with an integrator one step
\* after t0 = time[0]
FirstTickTime == IF mode = "kinrefine" THEN time[1] ELSE time[1] + dt

\* C26: the simulation clock is continuous across hand-offs: a refinement
\* starts at the terminal time of the exploration and a landing at the
\* terminal time of the refinement, so the first tick of a phase comes one
\* step after the last tick of the phase before it and its Ra(t) continues
\* from the Ra persisted at that tick.
C26_ContinuousClock ==
  (mode \in {"refine", "kinrefine", "landing"} /\ pc # "idle") =>
    /\ FirstTickTime = lastTick[Previous].t + dt
    /\ rot_ast2int(PyInt(FirstTickTime))
         = (archive[PrefixOf(IF mode = "landing" THEN "refine" ELSE "explore")
                      \o <<"Ra", lastTick[Previous].key>>] + dt) % RotPeriod

\* C27: the landing started from the command line descends to the
\* body-frame site the refinement it starts from remeshed and observed: the
\* site passed to landing equals the site passed to refine_landing_area or
\* kinematics_refine_landing_area.
C27_SameSite ==
  (mode = "landing" /\ pc # "idle") => site = lastTick["refinement"].site

\* the mesh the refinement persisted at its terminal tick
RefinedMesh == ReadMesh(archive, <<"refinement">>)

\* C28: the landing performs no raycast and no reconstruction update: over
\* all its ticks the estimated mesh is the one persisted at the terminal
\* tick of the refinement, landing/vertices, landing/faces and
\* landing/weight hold that mesh, no tick data of a raycast exists, and a
\* tick writes landing/state and landing/Ra and nothing else.
C28_LandingOnlyFlies ==
  /\ (mode = "landing" /\ pc # "idle") =>
       /\ est = RefinedMesh
       /\ archive[<<"landing", "vertices">>] = RefinedMesh.v
       /\ archive[<<"landing", "faces">>] = RefinedMesh.f
       /\ archive[<<"landing", "weight">>] = RefinedMesh.w
       /\ nUpd = 0
       /\ pc \in {"loop", "persist"}
       /\ targets = <<>> /\ intersections = <<>> /\ ast_ints = <<>>
       /\ caster = NoMesh
       /\ {p \in DOMAIN archive : IsPrefix(<<"landing">>, p)}
            = {<<"landing">>, <<"landing", "time">>,
               <<"landing", "initial_state">>, <<"landing", "vertices">>,
               <<"landing", "faces">>, <<"landing", "weight">>,
               <<"landing", "state">>, <<"landing", "Ra">>}
              \cup {<<"landing", g, LandingKey(k)>> :
                      g \in {"state", "Ra"}, k \in 1..(ii - 1)}
              \cup (IF pc = "persist"
                    THEN {<<"landing", LandingOrder[k], LandingKey(ii)>> : k \in 1..wi}
                    ELSE {})

C28_Witness ==
  /\ mode = "landing" /\ pc = "loop" /\ ii = land_steps
  /\ est.f = 2
  /\ est.v # {}
  /\ archive[<<"landing", "faces">>] = 2
  /\ Keys(archive, <<"landing", "Ra">>) = {LandingKey(k) : k \in 1..(land_steps - 1)}

\* C29: in both refinement variants the landing area is remeshed exactly
\* once, after the refinement group has been created anew and before the
\* first tick; the controller's vertices in view are taken from the
\* remeshed mesh before any integration or controller call, and no tick of
\* the loop remeshes.
C29_RemeshOnce ==
  /\ (mode \in {"refine", "kinrefine"} /\ pc = "remesh") =>
       /\ est = explore_mesh
       /\ in_view = 0
       /\ nInteg = 0 /\ nUpd = 0 /\ steps = <<>>
       /\ \A g \in TickGroups :
            /\ Has(archive, <<"refinement", g>>)
            /\ Keys(archive, <<"refinement", g>>) = {}
  /\ (mode \in {"refine", "kinrefine"} /\ pc \notin {"idle", "remesh"}) =>
       /\ est.f = remesh_faces_in_view(explore_mesh).f
       /\ in_view = est.f

C29_Witness ==
  /\ mode = "kinrefine" /\ pc = "loop" /\ ii = kin_steps
  /\ begun = <<"explore", "refine", "kinrefine">>
  /\ explore_mesh.f = 1
  /\ est.f = 2 /\ in_view = 2
  /\ nUpd = kin_steps

\* C30: for every phase that runs its full horizon, the key under which its
\* last tick is persisted is str(time[-1]) of the phase's time vector, so a
\* lookup of state/<time[-1]> below the phase's group finds the last tick.
C30_LastKey ==
  EndedAtHorizon =>
    /\ lastTick[PhaseOf(mode)].key = IntStr(Last(StoredTime))
    /\ Has(archive, PrefixOf(mode) \o <<"state", IntStr(Last(StoredTime))>>)

====
